---- MODULE Spec2Model ----
(***************************************************************************)
(* Model of the step-sequencing interpreter of crisprairs:                 *)
(*   engine/workflow.py  (StepResult, StepOutput, WorkflowStep, Router)    *)
(*   engine/runner.py    (PipelineRunner)                                  *)
(* The host operations start / advance / submit_input are modelled as one  *)
(* action each; the synchronous chain _run_current -> execute ->           *)
(* _handle_output -> (start | _run_current) they run is computed by        *)
(* mutually recursive operators that return the set of possible results.   *)
(* Further state machines over the same variables:                         *)
(*   SpecRouter  Router.register / get / modalities on an empty router     *)
(*   SpecTwo     two PipelineRunner instances on one router                *)
(*   SpecApp     app.py chat_respond on one session                        *)
(*   SpecLoop    the host loop of the PipelineRunner docstring             *)
(*   SpecCall    one call, taken one _run_current at a time                *)
(***************************************************************************)
EXTENDS Integers, Sequences, FiniteSets, TLC

VARIABLES routes, steps, cursor, done, waiting, current_modality,
          ctx_modality, lastCall,
          other,      \* a second PipelineRunner on the same router, with its context
          state,      \* app.py: the session state (started, runner is not None)
          history     \* app.py: the chat history

vars == <<routes, steps, cursor, done, waiting, current_modality,
          ctx_modality, lastCall, other, state, history>>

runnerVars == <<steps, cursor, done, waiting, current_modality>>

\* what only the hosts of the runner hold
hostVars == <<other, state, history>>

(* ---------------------------- bounds ----------------------------------- *)

\* total number of step instances registered in the router
MaxSteps == 3

\* number of Branch re-entries of start followed inside one host call
MaxBranch == 1

\* number of messages of a chat session that are answered
MaxChat == 3

(* ------------------------- workflow.py --------------------------------- *)

\* StepResult values; "raise" stands for execute raising an exception
CONTINUE == "continue"
WAIT_FOR_INPUT == "wait_input"
DONE == "done"
BRANCH == "branch"
RAISE == "raise"

\* the value None (no user input, no branch target, no error)
None == "None"

\* registered keys, the names a host passes to start (a step may also branch
\* to "MAIN", see BranchTargets), and the text a host submits
Keys == {"main", "alt"}
Names == {"main", "alt", "missing"}
Inputs == {"foo"}

\* str.lower() on the names of the model.  A capital sigma at the end of a
\* word becomes the final form of the small sigma, so that "ΟΣ".lower() is
\* "ος" and not "οσ".
Lower(name) ==
    CASE name = "MAIN" -> "main"
      [] name = "Alt" -> "alt"
      [] name = "ΟΣ" -> "ος"
      [] OTHER -> name

\* A WorkflowStep: needs_input as declared, and the behaviour of execute:
\*   "Continue" always returns CONTINUE          (tests: StepA, StepB)
\*   "Done"     always returns DONE              (tests: StepC, StepAlt)
\*   "Unsteady" returns CONTINUE or WAIT_FOR_INPUT, or raises, depending on
\*              the context and on the services it calls (KnockoutGuideDesign)
\*   "Branch"   returns BRANCH with some branch_to (tests: StepBranch)
StepKinds == {"Continue", "Done", "Unsteady", "Branch"}
WorkflowStep ==
    {[needs_input |-> FALSE, kind |-> k] : k \in StepKinds}
      \cup {[needs_input |-> TRUE, kind |-> k] : k \in {"Continue", "Unsteady"}}

\* prompt_message of a step
prompt_message(step) == <<"prompt", step>>

\* what execute of a step may return: result and branch_to
StepOutput(result, branch_to) == [result |-> result, branch_to |-> branch_to]

BranchTargets == {None, "", "alt", "MAIN", "missing"}

execute(step) ==
    CASE step.kind = "Continue" -> {StepOutput(CONTINUE, None)}
      [] step.kind = "Done"     -> {StepOutput(DONE, None)}
      [] step.kind = "Unsteady" ->
            {StepOutput(r, None) : r \in {CONTINUE, WAIT_FOR_INPUT, RAISE}}
      [] step.kind = "Branch"   -> {StepOutput(BRANCH, t) : t \in BranchTargets}

\* step lists of a given length
RECURSIVE StepLists(_)
StepLists(n) ==
    IF n = 0 THEN {<<>>}
    ELSE {Append(l, s) : l \in StepLists(n - 1), s \in WorkflowStep}

\* Router._routes after registration: lowercased key -> step list.  The two
\* keys play the same part (each can be started and branched to), so of two
\* registrations that differ by swapping them only the one whose "main" list
\* is at least as long as its "alt" list is kept.
RouterConfigs ==
    UNION {
      UNION { { [k \in Keys |-> IF k = "main" THEN lm ELSE la]
                  : lm \in StepLists(m), la \in StepLists(a) }
              : a \in {x \in 0..m : m + x <= MaxSteps} }
      : m \in 0..MaxSteps }

(* -------------------------- Router (workflow.py) ----------------------- *)

\* the names a host gives to the router, and the lists it registers
\* (tests: [AutoStep()], [AutoStep(), DoneStep()])
RouterNames == {"main", "MAIN", "alt", "Alt", "οσ", "ΟΣ", "missing"}

AutoStep == [needs_input |-> FALSE, kind |-> "Continue"]

DoneStep == [needs_input |-> FALSE, kind |-> "Done"]

RegisteredLists == {<<>>, <<AutoStep>>, <<DoneStep>>, <<AutoStep, DoneStep>>}

\* the names of the model in the order of Python's comparison of str
StrOrder == <<"Alt", "MAIN", "alt", "main", "missing", "ΟΣ", "ος", "οσ">>

\* sorted() in descending order
sorted_Reversed(S) ==
    LET n == Len(StrOrder) IN
    SelectSeq([i \in 1..n |-> StrOrder[n + 1 - i]], LAMBDA x : x \in S)

\* sorted() of a collection of names
sorted(S) == SelectSeq(StrOrder, LAMBDA x : x \in S)

\* ", ".join(names): the names with the separator between neighbours
RECURSIVE join(_)
join(names) ==
    IF Len(names) <= 1 THEN names
    ELSE <<names[1], ", ">> \o join(Tail(names))

\* register that extends the list already registered under the key
register_Appends(r, modality, list) ==
    LET key == Lower(modality) IN
    [k \in DOMAIN r \cup {key} |->
        IF k # key THEN r[k]
        ELSE IF key \in DOMAIN r THEN r[key] \o list ELSE list]

\* Router.register: _routes after the call
register(r, modality, list) ==
    LET key == Lower(modality) IN
    [k \in DOMAIN r \cup {key} |-> IF k = key THEN list ELSE r[k]]

\* Router.get: the list, or KeyError with its message
get(r, modality) ==
    LET key == Lower(modality) IN
    IF key \notin DOMAIN r
    THEN [err |-> "KeyError", value |-> None,
          message |-> <<"Unknown modality '", modality, "'. Available: ">>
                         \o join(sorted(DOMAIN r))]
    ELSE [err |-> None, value |-> r[key], message |-> None]

\* Router.modalities
modalities(r) == sorted(DOMAIN r)

(* --------------------------- runner.py --------------------------------- *)

\* The runner fields and the context field during a host call, together
\* with the executions made so far in this call.
Conf(st, cu, dn, wt, cm, xm, tr, fuel) ==
    [steps |-> st, cursor |-> cu, done |-> dn, waiting |-> wt,
     current_modality |-> cm, ctx_modality |-> xm, trace |-> tr, fuel |-> fuel]

\* a call returning an output to the host
Return(c, result, message) ==
    [c |-> c, err |-> None, result |-> result, message |-> message]

\* a call propagating an exception to the host
Raise(c, err) ==
    [c |-> c, err |-> err, result |-> None, message |-> None]

\* one execution of a step, as recorded in the trace of the call
Executed(c, step, user_input, out) ==
    [modality |-> c.current_modality, idx |-> c.cursor, step |-> step,
     user_input |-> user_input, result |-> out.result, branch_to |-> out.branch_to]

RECURSIVE start_(_, _), _run_current(_), _handle_output(_, _)

\* start with the reset of the fields made before the router lookup
start_ResetFirst(c, modality) ==
    LET c0 == [c EXCEPT !.cursor = 0, !.done = FALSE, !.waiting = FALSE,
                        !.current_modality = modality, !.ctx_modality = modality] IN
    IF Lower(modality) \notin DOMAIN routes
    THEN {Raise(c0, "KeyError")}
    ELSE IF c.fuel < 0 THEN {}
    ELSE _run_current([c0 EXCEPT !.steps = routes[Lower(modality)]])

\* start that forgets to reset the cursor
start_NoCursorReset(c, modality) ==
    IF Lower(modality) \notin DOMAIN routes
    THEN {Raise(c, "KeyError")}
    ELSE IF c.fuel < 0 THEN {}
    ELSE _run_current([c EXCEPT !.steps = routes[Lower(modality)],
                                !.done = FALSE,
                                !.waiting = FALSE,
                                !.current_modality = modality,
                                !.ctx_modality = modality])

\* start that forgets to clear the waiting flag
start_KeepsWaiting(c, modality) ==
    IF Lower(modality) \notin DOMAIN routes
    THEN {Raise(c, "KeyError")}
    ELSE IF c.fuel < 0 THEN {}
    ELSE _run_current([c EXCEPT !.steps = routes[Lower(modality)],
                                !.cursor = 0,
                                !.done = FALSE,
                                !.current_modality = modality,
                                !.ctx_modality = modality])

\* start that takes the list of an unregistered name to be empty
\* (self._router._routes.get(key, []) instead of Router.get)
start_UnknownIsEmpty(c, modality) ==
    IF c.fuel < 0 THEN {}
    ELSE _run_current([c EXCEPT !.steps = IF Lower(modality) \in DOMAIN routes
                                          THEN routes[Lower(modality)] ELSE <<>>,
                                !.cursor = 0,
                                !.done = FALSE,
                                !.waiting = FALSE,
                                !.current_modality = modality,
                                !.ctx_modality = modality])

\* start that does not write ctx.modality
start_NoCtxModality(c, modality) ==
    IF Lower(modality) \notin DOMAIN routes
    THEN {Raise(c, "KeyError")}
    ELSE IF c.fuel < 0 THEN {}
    ELSE _run_current([c EXCEPT !.steps = routes[Lower(modality)],
                                !.cursor = 0,
                                !.done = FALSE,
                                !.waiting = FALSE,
                                !.current_modality = modality])

\* PipelineRunner.start
start_(c, modality) ==
    IF Lower(modality) \notin DOMAIN routes
    THEN {Raise(c, "KeyError")}
    ELSE IF c.fuel < 0 THEN {}
    ELSE _run_current([c EXCEPT !.steps = routes[Lower(modality)],
                                !.cursor = 0,
                                !.done = FALSE,
                                !.waiting = FALSE,
                                !.current_modality = modality,
                                !.ctx_modality = modality])

\* _run_current that executes a needs_input step at once, without input
_run_current_NoPause(c) ==
    IF c.cursor >= Len(c.steps)
    THEN {Raise(c, "IndexError")}
    ELSE LET step == c.steps[c.cursor + 1] IN
         UNION { _handle_output(
                   [c EXCEPT !.trace = Append(@, Executed(c, step, None, out))], out)
                 : out \in execute(step) }

\* _run_current that asks for input before every step
_run_current_AlwaysPauses(c) ==
    IF c.cursor >= Len(c.steps)
    THEN {Raise(c, "IndexError")}
    ELSE LET step == c.steps[c.cursor + 1] IN
         {Return([c EXCEPT !.waiting = TRUE], WAIT_FOR_INPUT, prompt_message(step))}

\* _run_current that reports completion when the cursor is not an index of
\* the list
_run_current_EmptyIsDone(c) ==
    IF c.cursor >= Len(c.steps)
    THEN {Return([c EXCEPT !.done = TRUE], DONE, <<"Pipeline complete.">>)}
    ELSE LET step == c.steps[c.cursor + 1] IN
         IF step.needs_input
         THEN {Return([c EXCEPT !.waiting = TRUE], WAIT_FOR_INPUT, prompt_message(step))}
         ELSE UNION { _handle_output(
                        [c EXCEPT !.trace = Append(@, Executed(c, step, None, out))], out)
                      : out \in execute(step) }

\* PipelineRunner._run_current
_run_current(c) ==
    IF c.cursor >= Len(c.steps)
    THEN {Raise(c, "IndexError")}
    ELSE LET step == c.steps[c.cursor + 1] IN
         IF step.needs_input
         THEN {Return([c EXCEPT !.waiting = TRUE], WAIT_FOR_INPUT, prompt_message(step))}
         ELSE UNION { _handle_output(
                        [c EXCEPT !.trace = Append(@, Executed(c, step, None, out))], out)
                      : out \in execute(step) }

\* _handle_output whose CONTINUE branch tests the bound of the DONE branch
\* (cursor >= len - 1 after the increment), ending one step early
_handle_output_EarlyEnd(c, out) ==
    LET message == <<"step", c.current_modality, c.cursor>> IN
    CASE out.result = RAISE -> {Raise(c, "StepError")}
      [] out.result = DONE ->
            IF c.cursor >= Len(c.steps) - 1
            THEN {Return([c EXCEPT !.done = TRUE], DONE, message)}
            ELSE _run_current([c EXCEPT !.cursor = @ + 1])
      [] out.result = BRANCH ->
            IF out.branch_to \in {None, ""}
            THEN {Raise(c, "ValueError")}
            ELSE start_([c EXCEPT !.fuel = @ - 1], out.branch_to)
      [] out.result = WAIT_FOR_INPUT ->
            {Return([c EXCEPT !.waiting = TRUE], WAIT_FOR_INPUT, message)}
      [] out.result = CONTINUE ->
            IF c.cursor + 1 >= Len(c.steps) - 1
            THEN {Return([c EXCEPT !.cursor = @ + 1, !.done = TRUE], DONE, message)}
            ELSE _run_current([c EXCEPT !.cursor = @ + 1])

\* _handle_output that tests branch_to only against None, so that an empty
\* string is looked up in the router
_handle_output_EmptyTargetLookedUp(c, out) ==
    LET message == <<"step", c.current_modality, c.cursor>> IN
    CASE out.result = RAISE -> {Raise(c, "StepError")}
      [] out.result = DONE ->
            IF c.cursor >= Len(c.steps) - 1
            THEN {Return([c EXCEPT !.done = TRUE], DONE, message)}
            ELSE _run_current([c EXCEPT !.cursor = @ + 1])
      [] out.result = BRANCH ->
            IF out.branch_to = None
            THEN {Raise(c, "ValueError")}
            ELSE start_([c EXCEPT !.fuel = @ - 1], out.branch_to)
      [] out.result = WAIT_FOR_INPUT ->
            {Return([c EXCEPT !.waiting = TRUE], WAIT_FOR_INPUT, message)}
      [] out.result = CONTINUE ->
            IF c.cursor + 1 >= Len(c.steps)
            THEN {Return([c EXCEPT !.cursor = @ + 1, !.done = TRUE], DONE, message)}
            ELSE _run_current([c EXCEPT !.cursor = @ + 1])

\* _handle_output for which DONE ends the run at every position
_handle_output_DoneAlwaysEnds(c, out) ==
    LET message == <<"step", c.current_modality, c.cursor>> IN
    CASE out.result = RAISE -> {Raise(c, "StepError")}
      [] out.result = DONE ->
            {Return([c EXCEPT !.done = TRUE], DONE, message)}
      [] out.result = BRANCH ->
            IF out.branch_to \in {None, ""}
            THEN {Raise(c, "ValueError")}
            ELSE start_([c EXCEPT !.fuel = @ - 1], out.branch_to)
      [] out.result = WAIT_FOR_INPUT ->
            {Return([c EXCEPT !.waiting = TRUE], WAIT_FOR_INPUT, message)}
      [] out.result = CONTINUE ->
            IF c.cursor + 1 >= Len(c.steps)
            THEN {Return([c EXCEPT !.cursor = @ + 1, !.done = TRUE], DONE, message)}
            ELSE _run_current([c EXCEPT !.cursor = @ + 1])

\* _handle_output that returns the CONTINUE of the last step as it is
_handle_output_ContinueKeepsKind(c, out) ==
    LET message == <<"step", c.current_modality, c.cursor>> IN
    CASE out.result = RAISE -> {Raise(c, "StepError")}
      [] out.result = DONE ->
            IF c.cursor >= Len(c.steps) - 1
            THEN {Return([c EXCEPT !.done = TRUE], DONE, message)}
            ELSE _run_current([c EXCEPT !.cursor = @ + 1])
      [] out.result = BRANCH ->
            IF out.branch_to \in {None, ""}
            THEN {Raise(c, "ValueError")}
            ELSE start_([c EXCEPT !.fuel = @ - 1], out.branch_to)
      [] out.result = WAIT_FOR_INPUT ->
            {Return([c EXCEPT !.waiting = TRUE], WAIT_FOR_INPUT, message)}
      [] out.result = CONTINUE ->
            IF c.cursor + 1 >= Len(c.steps)
            THEN {Return([c EXCEPT !.cursor = @ + 1, !.done = TRUE], CONTINUE, message)}
            ELSE _run_current([c EXCEPT !.cursor = @ + 1])

\* _handle_output that passes over the step after a CONTINUE when two or
\* more steps remain
_handle_output_SkipsOne(c, out) ==
    LET message == <<"step", c.current_modality, c.cursor>> IN
    CASE out.result = RAISE -> {Raise(c, "StepError")}
      [] out.result = DONE ->
            IF c.cursor >= Len(c.steps) - 1
            THEN {Return([c EXCEPT !.done = TRUE], DONE, message)}
            ELSE _run_current([c EXCEPT !.cursor = @ + 1])
      [] out.result = BRANCH ->
            IF out.branch_to \in {None, ""}
            THEN {Raise(c, "ValueError")}
            ELSE start_([c EXCEPT !.fuel = @ - 1], out.branch_to)
      [] out.result = WAIT_FOR_INPUT ->
            {Return([c EXCEPT !.waiting = TRUE], WAIT_FOR_INPUT, message)}
      [] out.result = CONTINUE ->
            IF c.cursor + 1 >= Len(c.steps)
            THEN {Return([c EXCEPT !.cursor = @ + 1, !.done = TRUE], DONE, message)}
            ELSE IF c.cursor + 2 < Len(c.steps)
            THEN _run_current([c EXCEPT !.cursor = @ + 2])
            ELSE _run_current([c EXCEPT !.cursor = @ + 1])

\* _handle_output that returns a WAIT_FOR_INPUT output without setting the
\* waiting flag
_handle_output_WaitNoFlag(c, out) ==
    LET message == <<"step", c.current_modality, c.cursor>> IN
    CASE out.result = RAISE -> {Raise(c, "StepError")}
      [] out.result = DONE ->
            IF c.cursor >= Len(c.steps) - 1
            THEN {Return([c EXCEPT !.done = TRUE], DONE, message)}
            ELSE _run_current([c EXCEPT !.cursor = @ + 1])
      [] out.result = BRANCH ->
            IF out.branch_to \in {None, ""}
            THEN {Raise(c, "ValueError")}
            ELSE start_([c EXCEPT !.fuel = @ - 1], out.branch_to)
      [] out.result = WAIT_FOR_INPUT ->
            {Return(c, WAIT_FOR_INPUT, message)}
      [] out.result = CONTINUE ->
            IF c.cursor + 1 >= Len(c.steps)
            THEN {Return([c EXCEPT !.cursor = @ + 1, !.done = TRUE], DONE, message)}
            ELSE _run_current([c EXCEPT !.cursor = @ + 1])

\* PipelineRunner._handle_output; the message of a step's output names the
\* execution that produced it
_handle_output(c, out) ==
    LET message == <<"step", c.current_modality, c.cursor>> IN
    CASE out.result = RAISE -> {Raise(c, "StepError")}
      [] out.result = DONE ->
            IF c.cursor >= Len(c.steps) - 1
            THEN {Return([c EXCEPT !.done = TRUE], DONE, message)}
            ELSE _run_current([c EXCEPT !.cursor = @ + 1])
      [] out.result = BRANCH ->
            IF out.branch_to \in {None, ""}
            THEN {Raise(c, "ValueError")}
            ELSE start_([c EXCEPT !.fuel = @ - 1], out.branch_to)
      [] out.result = WAIT_FOR_INPUT ->
            {Return([c EXCEPT !.waiting = TRUE], WAIT_FOR_INPUT, message)}
      [] out.result = CONTINUE ->
            IF c.cursor + 1 >= Len(c.steps)
            THEN {Return([c EXCEPT !.cursor = @ + 1, !.done = TRUE], DONE, message)}
            ELSE _run_current([c EXCEPT !.cursor = @ + 1])

\* advance without the check of the waiting flag
advance_NoWaitingCheck(c) ==
    IF c.done THEN {Raise(c, "RuntimeError")}
    ELSE IF c.cursor + 1 >= Len(c.steps)
         THEN {Return([c EXCEPT !.cursor = @ + 1, !.done = TRUE], DONE, <<"Pipeline complete.">>)}
         ELSE _run_current([c EXCEPT !.cursor = @ + 1])

\* advance that reports completion without setting the done flag
advance_NoDoneFlag(c) ==
    IF c.done THEN {Raise(c, "RuntimeError")}
    ELSE IF c.waiting THEN {Raise(c, "RuntimeError")}
    ELSE IF c.cursor + 1 >= Len(c.steps)
         THEN {Return([c EXCEPT !.cursor = @ + 1], DONE, <<"Pipeline complete.">>)}
         ELSE _run_current([c EXCEPT !.cursor = @ + 1])

\* advance that runs the step at the cursor without moving to the next
advance_NoIncrement(c) ==
    IF c.done THEN {Raise(c, "RuntimeError")}
    ELSE IF c.waiting THEN {Raise(c, "RuntimeError")}
    ELSE IF c.cursor >= Len(c.steps)
         THEN {Return([c EXCEPT !.done = TRUE], DONE, <<"Pipeline complete.">>)}
         ELSE _run_current(c)

\* PipelineRunner.advance
advance_(c) ==
    IF c.done THEN {Raise(c, "RuntimeError")}
    ELSE IF c.waiting THEN {Raise(c, "RuntimeError")}
    ELSE IF c.cursor + 1 >= Len(c.steps)
         THEN {Return([c EXCEPT !.cursor = @ + 1, !.done = TRUE], DONE, <<"Pipeline complete.">>)}
         ELSE _run_current([c EXCEPT !.cursor = @ + 1])

\* submit_input that forgets to clear the waiting flag
submit_input_KeepsWaiting(c, user_input) ==
    IF ~c.waiting THEN {Raise(c, "RuntimeError")}
    ELSE LET step == c.steps[c.cursor + 1] IN
         UNION { _handle_output(
                   [c EXCEPT !.trace = Append(@, Executed(c, step, user_input, out))], out)
                 : out \in execute(step) }

\* submit_input that executes the step without the text
submit_input_DropsText(c, user_input) ==
    IF ~c.waiting THEN {Raise(c, "RuntimeError")}
    ELSE LET step == c.steps[c.cursor + 1]
             c1 == [c EXCEPT !.waiting = FALSE] IN
         UNION { _handle_output(
                   [c1 EXCEPT !.trace = Append(@, Executed(c1, step, None, out))], out)
                 : out \in execute(step) }

\* PipelineRunner.submit_input
submit_input_(c, user_input) ==
    IF ~c.waiting THEN {Raise(c, "RuntimeError")}
    ELSE LET step == c.steps[c.cursor + 1]
             c1 == [c EXCEPT !.waiting = FALSE] IN
         UNION { _handle_output(
                   [c1 EXCEPT !.trace = Append(@, Executed(c1, step, user_input, out))], out)
                 : out \in execute(step) }

(* ------------------------- state machine ------------------------------- *)

\* PipelineRunner.__init__ and SessionContext(): the fields of a new runner
\* and the modality of a new context
NewRunner ==
    [steps |-> <<>>, cursor |-> 0, done |-> FALSE, waiting |-> FALSE,
     current_modality |-> "", ctx_modality |-> ""]

\* _new_session_state: no workflow started, no runner
NewSessionState == [started |-> FALSE, runner |-> FALSE]

\* the configuration a host call starts from
Here == Conf(steps, cursor, done, waiting, current_modality, ctx_modality,
             <<>>, MaxBranch)

\* current_step without the test of the done flag
current_step_IgnoresDone ==
    IF cursor >= Len(steps) THEN <<>> ELSE <<steps[cursor + 1]>>

\* PipelineRunner.current_step: <<>> stands for None, <<s>> for the step s
current_step ==
    IF done \/ cursor >= Len(steps) THEN <<>> ELSE <<steps[cursor + 1]>>

\* PipelineRunner.step_index and PipelineRunner.total_steps
step_index == cursor

total_steps == Len(steps)

\* is_done / waiting_for_input as the host sees them
Phase == IF done THEN "done" ELSE IF waiting THEN "waiting" ELSE "ready"

\* the state after a host call that ended as r; lastCall records the call:
\* the operation, its argument, the phase it was made in, how it ended and
\* the steps it executed
Finish(op, arg, r) ==
    /\ steps' = r.c.steps
    /\ cursor' = r.c.cursor
    /\ done' = r.c.done
    /\ waiting' = r.c.waiting
    /\ current_modality' = r.c.current_modality
    /\ ctx_modality' = r.c.ctx_modality
    /\ lastCall' = [op |-> op, arg |-> arg, from |-> Phase, err |-> r.err,
                    result |-> r.result, message |-> r.message, trace |-> r.c.trace]
    /\ UNCHANGED <<routes, hostVars>>

\* PipelineRunner.__init__ on a router whose registration is complete
Init ==
    /\ routes \in RouterConfigs
    /\ steps = <<>>
    /\ cursor = 0
    /\ done = FALSE
    /\ waiting = FALSE
    /\ current_modality = ""
    /\ ctx_modality = ""
    /\ lastCall = [op |-> "init", arg |-> None, from |-> None, err |-> None,
                   result |-> None, message |-> None, trace |-> <<>>]
    /\ other = NewRunner
    /\ state = NewSessionState
    /\ history = <<>>

Start == \E modality \in Names : \E r \in start_(Here, modality) :
            Finish("start", modality, r)

Advance == \E r \in advance_(Here) : Finish("advance", None, r)

SubmitInput == \E user_input \in Inputs : \E r \in submit_input_(Here, user_input) :
                  Finish("submit_input", user_input, r)

Next == Start \/ Advance \/ SubmitInput

Spec == Init /\ [][Next]_vars

(* ----------------------- router state machine -------------------------- *)

\* Router.__init__: no registration; no runner is involved.  lastCall
\* records the call: its arguments, for register what get of the name
\* returned before the call, and what the call returned or raised.
InitRouter ==
    /\ routes = [k \in {} |-> <<>>]
    /\ steps = <<>>
    /\ cursor = 0
    /\ done = FALSE
    /\ waiting = FALSE
    /\ current_modality = ""
    /\ ctx_modality = ""
    /\ lastCall = [op |-> "init", arg |-> None, list |-> None, before |-> None,
                   err |-> None, value |-> None, message |-> None]
    /\ other = NewRunner
    /\ state = NewSessionState
    /\ history = <<>>

Register ==
    \E modality \in RouterNames : \E list \in RegisteredLists :
       /\ routes' = register(routes, modality, list)
       /\ lastCall' = [op |-> "register", arg |-> modality, list |-> list,
                       before |-> get(routes, modality),
                       err |-> None, value |-> None, message |-> None]
       /\ UNCHANGED <<runnerVars, ctx_modality, hostVars>>

Get ==
    \E modality \in RouterNames :
       LET g == get(routes, modality) IN
       /\ lastCall' = [op |-> "get", arg |-> modality, list |-> None,
                       before |-> None,
                       err |-> g.err, value |-> g.value, message |-> g.message]
       /\ UNCHANGED <<routes, runnerVars, ctx_modality, hostVars>>

Modalities ==
    /\ lastCall' = [op |-> "modalities", arg |-> None, list |-> None,
                    before |-> None,
                    err |-> None, value |-> modalities(routes), message |-> None]
    /\ UNCHANGED <<routes, runnerVars, ctx_modality, hostVars>>

NextRouter == Register \/ Get \/ Modalities

SpecRouter == InitRouter /\ [][NextRouter]_vars

(* ------------------- two runners on one router ------------------------- *)

\* the lists registered when the hosts of the runner are observed (two
\* runners, the chat handler): the registrations of RouterConfigs that leave
\* out one step instance and give "alt" no step
SmallRouterConfigs ==
    {r \in RouterConfigs : Len(r["main"]) < MaxSteps /\ r["alt"] = <<>>}

\* the fields of a runner and its context after a call
Fields(c) ==
    [steps |-> c.steps, cursor |-> c.cursor, done |-> c.done, waiting |-> c.waiting,
     current_modality |-> c.current_modality, ctx_modality |-> c.ctx_modality]

\* the fields of the first runner; the configuration a call on the second
\* runner starts from
This ==
    [steps |-> steps, cursor |-> cursor, done |-> done, waiting |-> waiting,
     current_modality |-> current_modality, ctx_modality |-> ctx_modality]

HereOther == Conf(other.steps, other.cursor, other.done, other.waiting,
                  other.current_modality, other.ctx_modality, <<>>, MaxBranch)

\* a runner whose cursor is an attribute of the class: an assignment made
\* through one instance is seen through the other
assign_SharedCursor(mine, others, c) ==
    [mine |-> Fields(c), others |-> [others EXCEPT !.cursor = c.cursor]]

\* the assignments of a call go to the attributes of the instance it is
\* made on (self._steps, self._cursor, ...), all created in __init__
assign(mine, others, c) ==
    [mine |-> Fields(c), others |-> others]

\* the state after a call on the first runner that ended as r
FinishThis(r) ==
    LET a == assign(This, other, r.c) IN
    /\ steps' = a.mine.steps
    /\ cursor' = a.mine.cursor
    /\ done' = a.mine.done
    /\ waiting' = a.mine.waiting
    /\ current_modality' = a.mine.current_modality
    /\ ctx_modality' = a.mine.ctx_modality
    /\ other' = a.others
    /\ UNCHANGED <<routes, lastCall, state, history>>

\* the state after a call on the second runner that ended as r
FinishOther(r) ==
    LET a == assign(other, This, r.c) IN
    /\ other' = a.mine
    /\ steps' = a.others.steps
    /\ cursor' = a.others.cursor
    /\ done' = a.others.done
    /\ waiting' = a.others.waiting
    /\ current_modality' = a.others.current_modality
    /\ ctx_modality' = a.others.ctx_modality
    /\ UNCHANGED <<routes, lastCall, state, history>>

InitTwo ==
    /\ routes \in SmallRouterConfigs
    /\ steps = <<>>
    /\ cursor = 0
    /\ done = FALSE
    /\ waiting = FALSE
    /\ current_modality = ""
    /\ ctx_modality = ""
    /\ lastCall = [op |-> "init"]
    /\ other = NewRunner
    /\ state = NewSessionState
    /\ history = <<>>

StartThis == \E modality \in Names : \E r \in start_(Here, modality) : FinishThis(r)

AdvanceThis == \E r \in advance_(Here) : FinishThis(r)

SubmitInputThis == \E user_input \in Inputs : \E r \in submit_input_(Here, user_input) :
                      FinishThis(r)

StartOther == \E modality \in Names : \E r \in start_(HereOther, modality) : FinishOther(r)

AdvanceOther == \E r \in advance_(HereOther) : FinishOther(r)

SubmitInputOther == \E user_input \in Inputs : \E r \in submit_input_(HereOther, user_input) :
                       FinishOther(r)

NextTwo ==
    \/ StartThis \/ AdvanceThis \/ SubmitInputThis
    \/ StartOther \/ AdvanceOther \/ SubmitInputOther

SpecTwo == InitTwo /\ [][NextTwo]_vars

(* ------------------------------ app.py --------------------------------- *)

\* the messages of a chat (none has white space around it)
Messages == {"MAIN", "foo", "Human Embryo"}

\* check_biosafety: the keywords of the three lists found in text.lower()
check_biosafety(text) ==
    IF text = "Human Embryo" THEN {"human embryo"} ELSE {}

\* MODALITY_MAP.get(message.strip().lower()); the names of the map are the
\* names registered in the router
MODALITY_MAP(message) ==
    IF Lower(message) \in DOMAIN routes THEN Lower(message) ELSE None

\* an entry of the history
Entry(role, content) == [role |-> role, content |-> content]

\* how chat_respond ends: the history and the session state it returns (or
\* leaves behind when an exception escapes), and the runner and context
Outcome(h, st, c, raised) == [history |-> h, state |-> st, c |-> c, raised |-> raised]

\* the loop "while output.result == CONTINUE: output = runner.advance(ctx)";
\* guarded is the form of the loop after submit_input, which also stops
\* when the runner is done or advance raises
RECURSIVE auto_advance(_, _)
auto_advance(r, guarded) ==
    IF r.err # None
    THEN {r}
    ELSE IF r.result = CONTINUE /\ ~(guarded /\ r.c.done)
    THEN UNION { IF guarded /\ r2.err # None
                 THEN {[r EXCEPT !.c = r2.c]}
                 ELSE auto_advance(r2, guarded)
                 : r2 \in advance_(r.c) }
    ELSE {r}

\* the reply built from the last output
Reply(r) == <<"reply", r.result>>

\* chat_respond for a flagged message
safety_block(message, h, st, c) ==
    {Outcome(h \o <<Entry("user", message),
                    Entry("assistant", <<"Safety Notice", check_biosafety(message)>>)>>,
             st, c, FALSE)}

\* chat_respond before the workflow has started: the modality selection
select_modality(message, h, st, c) ==
    LET modality == MODALITY_MAP(message) IN
    IF modality = None
    THEN {Outcome(h \o <<Entry("user", message), Entry("assistant", <<"unrecognized">>)>>,
                  st, c, FALSE)}
    ELSE LET c0 == Conf(NewRunner.steps, NewRunner.cursor, NewRunner.done,
                        NewRunner.waiting, NewRunner.current_modality,
                        modality, c.trace, c.fuel)
             st1 == [st EXCEPT !.runner = TRUE, !.started = TRUE] IN
         { IF r.err # None
           THEN Outcome(h, st1, r.c, TRUE)
           ELSE Outcome(h \o <<Entry("user", message), Entry("assistant", Reply(r))>>,
                        st1, r.c, FALSE)
           : r \in UNION {auto_advance(r0, FALSE) : r0 \in start_(c0, modality)} }

\* chat_respond once the workflow has started: the message is the input
submit_message(message, h, st, c) ==
    IF ~st.runner \/ c.done
    THEN {Outcome(h \o <<Entry("user", message), Entry("assistant", <<"complete">>)>>,
                  st, c, FALSE)}
    ELSE UNION {
           IF r0.err # None
           THEN {Outcome(h \o <<Entry("user", message), Entry("assistant", <<"error", r0.err>>)>>,
                         st, r0.c, FALSE)}
           ELSE {Outcome(h \o <<Entry("user", message), Entry("assistant", Reply(r))>>,
                         st, r.c, FALSE) : r \in auto_advance(r0, TRUE)}
           : r0 \in submit_input_(c, message) }

\* chat_respond without the safety check
chat_respond_NoSafetyCheck(message, h, st, c) ==
    IF ~st.started
    THEN select_modality(message, h, st, c)
    ELSE submit_message(message, h, st, c)

\* chat_respond(message, history, state)
chat_respond(message, h, st, c) ==
    IF check_biosafety(message) # {}
    THEN safety_block(message, h, st, c)
    ELSE IF ~st.started
    THEN select_modality(message, h, st, c)
    ELSE submit_message(message, h, st, c)

\* a new session on the router built at import; lastCall records the call
\* of chat_respond: the message, the session as it was before the call, and
\* the steps the call executed
InitApp ==
    /\ routes \in SmallRouterConfigs
    /\ steps = <<>>
    /\ cursor = 0
    /\ done = FALSE
    /\ waiting = FALSE
    /\ current_modality = ""
    /\ ctx_modality = ""
    /\ lastCall = [op |-> "init", message |-> None, raised |-> FALSE, trace |-> <<>>,
                   before |-> [state |-> NewSessionState, runner |-> NewRunner,
                               history |-> <<>>]]
    /\ other = NewRunner
    /\ state = NewSessionState
    /\ history = <<>>

ChatRespond ==
    /\ Len(history) < 2 * MaxChat
    /\ \E message \in Messages : \E o \in chat_respond(message, history, state, Here) :
          /\ history' = o.history
          /\ state' = o.state
          /\ steps' = o.c.steps
          /\ cursor' = o.c.cursor
          /\ done' = o.c.done
          /\ waiting' = o.c.waiting
          /\ current_modality' = o.c.current_modality
          /\ ctx_modality' = o.c.ctx_modality
          /\ lastCall' = [op |-> "chat_respond", message |-> message,
                          raised |-> o.raised, trace |-> o.c.trace,
                          before |-> [state |-> state, runner |-> This,
                                      history |-> history]]
          /\ UNCHANGED <<routes, other>>

NextApp == ChatRespond

SpecApp == InitApp /\ [][NextApp]_vars

(* ------------------ the host loop of the docstring --------------------- *)

\* the steps that return only CONTINUE or DONE from execute
SteadySteps == {s \in WorkflowStep : s.kind \in {"Continue", "Done"}}

\* registrations of one non-empty sequence of such steps under "main"
LoopConfigs ==
    {r \in RouterConfigs :
        /\ r["main"] # <<>>
        /\ r["alt"] = <<>>
        /\ \A i \in DOMAIN r["main"] : r["main"][i] \in SteadySteps}

\* the indices of the executions of a call
Indices(trace) == [i \in DOMAIN trace |-> trace[i].idx]

\* a new runner before runner.start; lastCall counts the calls the loop has
\* made and lists the indices of the steps executed since the start
InitLoop ==
    /\ routes \in LoopConfigs
    /\ steps = <<>>
    /\ cursor = 0
    /\ done = FALSE
    /\ waiting = FALSE
    /\ current_modality = ""
    /\ ctx_modality = ""
    /\ lastCall = [op |-> "init", err |-> None, submits |-> 0, advances |-> 0,
                   executed |-> <<>>]
    /\ other = NewRunner
    /\ state = NewSessionState
    /\ history = <<>>

\* the state after a call of the loop that ended as r
FinishLoop(op, r) ==
    /\ steps' = r.c.steps
    /\ cursor' = r.c.cursor
    /\ done' = r.c.done
    /\ waiting' = r.c.waiting
    /\ current_modality' = r.c.current_modality
    /\ ctx_modality' = r.c.ctx_modality
    /\ lastCall' = [op |-> op, err |-> r.err,
                    submits |-> lastCall.submits + (IF op = "submit_input" THEN 1 ELSE 0),
                    advances |-> lastCall.advances + (IF op = "advance" THEN 1 ELSE 0),
                    executed |-> lastCall.executed \o Indices(r.c.trace)]
    /\ UNCHANGED <<routes, hostVars>>

\* runner.start("main", ctx)
HostStart ==
    /\ lastCall.op = "init"
    /\ \E r \in start_(Here, "main") : FinishLoop("start", r)

\* one turn of "while not runner.is_done: if runner.waiting_for_input:
\* submit_input(ctx, user_text) else: advance(ctx)"; an exception ends the loop
HostLoop ==
    /\ lastCall.op # "init"
    /\ lastCall.err = None
    /\ ~done
    /\ IF waiting
       THEN \E user_input \in Inputs : \E r \in submit_input_(Here, user_input) :
               FinishLoop("submit_input", r)
       ELSE \E r \in advance_(Here) : FinishLoop("advance", r)

NextLoop == HostStart \/ HostLoop

SpecLoop == InitLoop /\ [][NextLoop]_vars /\ WF_vars(NextLoop)

(* --------------- one call, one step execution at a time ---------------- *)

\* The chain start -> _run_current -> execute -> _handle_output ->
\* (start | _run_current) of a call, taken one _run_current at a time.
\* lastCall is the call in progress: pc is "run" while _run_current is to
\* be entered and "idle" once the call has returned or raised; entered is
\* the set of sequences that start has entered during the call, reentered
\* tells that a Branch entered one of them again.

\* the registrations observed: those of RouterConfigs that leave out one
\* step instance
CallConfigs ==
    {r \in RouterConfigs : Len(r["main"]) + Len(r["alt"]) < MaxSteps}

\* a cursor that is not moved
next_cursor_Stays(cu) == cu

\* self._cursor += 1
next_cursor(cu) == cu + 1

InitCall ==
    /\ routes \in CallConfigs
    /\ steps = <<>>
    /\ cursor = 0
    /\ done = FALSE
    /\ waiting = FALSE
    /\ current_modality = ""
    /\ ctx_modality = ""
    /\ lastCall = [op |-> "init", pc |-> "idle", err |-> None,
                   entered |-> {}, reentered |-> FALSE]
    /\ other = NewRunner
    /\ state = NewSessionState
    /\ history = <<>>

\* the call ends (returns, or raises err) with these flags
Ends(op, err, dn, wt, ent, re) ==
    /\ done' = dn
    /\ waiting' = wt
    /\ lastCall' = [op |-> op, pc |-> "idle", err |-> err,
                    entered |-> ent, reentered |-> re]

\* the call goes on to _run_current
GoesOn(op, ent, re) ==
    lastCall' = [op |-> op, pc |-> "run", err |-> None,
                 entered |-> ent, reentered |-> re]

\* the body of start, entered by the host (ent = {}) or by a Branch
StartBody(op, modality, ent, re) ==
    IF Lower(modality) \notin DOMAIN routes
    THEN /\ lastCall' = [op |-> op, pc |-> "idle", err |-> "KeyError",
                         entered |-> ent, reentered |-> re]
         /\ UNCHANGED <<runnerVars, ctx_modality>>
    ELSE /\ steps' = routes[Lower(modality)]
         /\ cursor' = 0
         /\ done' = FALSE
         /\ waiting' = FALSE
         /\ current_modality' = modality
         /\ ctx_modality' = modality
         /\ lastCall' = [op |-> op, pc |-> "run", err |-> None,
                         entered |-> ent \cup {Lower(modality)},
                         reentered |-> re \/ Lower(modality) \in ent]

\* _handle_output for the output of the step at the cursor; wt is the
\* waiting flag at that time
HandleOutput(op, out, wt, ent, re) ==
    CASE out.result = RAISE ->
            /\ Ends(op, "StepError", done, wt, ent, re)
            /\ UNCHANGED <<steps, cursor, current_modality, ctx_modality>>
      [] out.result = DONE ->
            IF cursor >= Len(steps) - 1
            THEN /\ Ends(op, None, TRUE, wt, ent, re)
                 /\ UNCHANGED <<steps, cursor, current_modality, ctx_modality>>
            ELSE /\ cursor' = next_cursor(cursor)
                 /\ waiting' = wt
                 /\ GoesOn(op, ent, re)
                 /\ UNCHANGED <<steps, done, current_modality, ctx_modality>>
      [] out.result = BRANCH ->
            IF out.branch_to \in {None, ""}
            THEN /\ Ends(op, "ValueError", done, wt, ent, re)
                 /\ UNCHANGED <<steps, cursor, current_modality, ctx_modality>>
            ELSE IF Lower(out.branch_to) \notin DOMAIN routes
            THEN /\ Ends(op, "KeyError", done, wt, ent, re)
                 /\ UNCHANGED <<steps, cursor, current_modality, ctx_modality>>
            ELSE StartBody(op, out.branch_to, ent, re)
      [] out.result = WAIT_FOR_INPUT ->
            /\ Ends(op, None, done, TRUE, ent, re)
            /\ UNCHANGED <<steps, cursor, current_modality, ctx_modality>>
      [] out.result = CONTINUE ->
            /\ cursor' = next_cursor(cursor)
            /\ IF cursor' >= Len(steps)
               THEN Ends(op, None, TRUE, wt, ent, re)
               ELSE done' = done /\ waiting' = wt /\ GoesOn(op, ent, re)
            /\ UNCHANGED <<steps, current_modality, ctx_modality>>

\* the host calls start
CallStart ==
    /\ lastCall.pc = "idle"
    /\ \E modality \in Names : StartBody("start", modality, {}, FALSE)
    /\ UNCHANGED <<routes, hostVars>>

\* the host calls advance
CallAdvance ==
    /\ lastCall.pc = "idle"
    /\ IF done \/ waiting
       THEN /\ lastCall' = [op |-> "advance", pc |-> "idle", err |-> "RuntimeError",
                            entered |-> {}, reentered |-> FALSE]
            /\ UNCHANGED <<runnerVars, ctx_modality>>
       ELSE /\ cursor' = next_cursor(cursor)
            /\ IF cursor' >= Len(steps)
               THEN /\ done' = TRUE
                    /\ lastCall' = [op |-> "advance", pc |-> "idle", err |-> None,
                                    entered |-> {}, reentered |-> FALSE]
               ELSE /\ done' = done
                    /\ lastCall' = [op |-> "advance", pc |-> "run", err |-> None,
                                    entered |-> {}, reentered |-> FALSE]
            /\ UNCHANGED <<steps, waiting, current_modality, ctx_modality>>
    /\ UNCHANGED <<routes, hostVars>>

\* the host calls submit_input: the step at the cursor is executed
CallSubmitInput ==
    /\ lastCall.pc = "idle"
    /\ IF ~waiting
       THEN /\ lastCall' = [op |-> "submit_input", pc |-> "idle", err |-> "RuntimeError",
                            entered |-> {}, reentered |-> FALSE]
            /\ UNCHANGED <<runnerVars, ctx_modality>>
       ELSE \E out \in execute(steps[cursor + 1]) :
               HandleOutput("submit_input", out, FALSE, {}, FALSE)
    /\ UNCHANGED <<routes, hostVars>>

\* _run_current of the call in progress
RunCurrent ==
    /\ lastCall.pc = "run"
    /\ IF cursor >= Len(steps)
       THEN /\ Ends(lastCall.op, "IndexError", done, waiting,
                    lastCall.entered, lastCall.reentered)
            /\ UNCHANGED <<steps, cursor, current_modality, ctx_modality>>
       ELSE IF steps[cursor + 1].needs_input
       THEN /\ Ends(lastCall.op, None, done, TRUE,
                    lastCall.entered, lastCall.reentered)
            /\ UNCHANGED <<steps, cursor, current_modality, ctx_modality>>
       ELSE \E out \in execute(steps[cursor + 1]) :
               HandleOutput(lastCall.op, out, waiting,
                            lastCall.entered, lastCall.reentered)
    /\ UNCHANGED <<routes, hostVars>>

NextCall == CallStart \/ CallAdvance \/ CallSubmitInput \/ RunCurrent

\* every execute returns and the interpreter keeps running
SpecCall == InitCall /\ [][NextCall]_vars /\ WF_vars(RunCurrent)

(* ---------------------------- properties ------------------------------- *)

\* the name has a registration (Router.get succeeds)
Registered(name) == Lower(name) \in DOMAIN routes

\* the last call ended with the step at the cursor returning WAIT_FOR_INPUT
PausedByOutput ==
    /\ lastCall.trace # <<>>
    /\ lastCall.trace[Len(lastCall.trace)].result = WAIT_FOR_INPUT

\* C1: a step that declares needs_input is never executed by the chain that
\* reaches it: the call that arrives at it (from start, advance or an
\* auto-advance) returns WAIT_FOR_INPUT with that step's prompt and leaves
\* the runner waiting; such a step is executed only by submit_input, as the
\* first and only execution that gets the submitted text, and it is the step
\* at the cursor at the time of the call.
C1_Step ==
    LET call == lastCall'
        tr == lastCall'.trace IN
    /\ ( /\ call.err = None
         /\ ~done'
         /\ cursor' < Len(steps')
         /\ steps'[cursor' + 1].needs_input
         /\ (tr = <<>> \/ tr[Len(tr)].result # WAIT_FOR_INPUT) )
          => /\ waiting'
             /\ call.result = WAIT_FOR_INPUT
             /\ call.message = prompt_message(steps'[cursor' + 1])
    /\ \A i \in DOMAIN tr :
          tr[i].step.needs_input =>
             /\ i = 1
             /\ call.op = "submit_input"
             /\ tr[i].user_input = call.arg
    /\ (call.op = "submit_input" /\ waiting) =>
             /\ tr # <<>>
             /\ tr[1].idx = cursor
             /\ tr[1].modality = current_modality
             /\ tr[1].step = steps[cursor + 1]
             /\ tr[1].user_input = call.arg
             /\ \A i \in DOMAIN tr : i > 1 => tr[i].user_input = None

C2_Step ==
    ( \/ lastCall'.op = "advance" /\ (waiting \/ done)
      \/ lastCall'.op = "submit_input" /\ ~waiting )
       => /\ lastCall'.err = "RuntimeError"
          /\ lastCall'.trace = <<>>
          /\ UNCHANGED <<runnerVars, ctx_modality>>

C2_ProtocolViolationsChangeNothing == [][C2_Step]_vars

\* C2 witness: an advance made while waiting at a step past the first one
\* failed, the pause still pending
C2_Witness ==
    /\ lastCall.op = "advance"
    /\ lastCall.err = "RuntimeError"
    /\ lastCall.from = "waiting"
    /\ waiting
    /\ cursor >= 1

\* C3 (as claimed): a call in which a step's execute raises leaves every
\* field of the runner as it was before the call.
C3_Original == [][lastCall'.err = "StepError" => UNCHANGED runnerVars]_vars

\* the execution at place i of the last call's trace returned BRANCH to a
\* registered sequence
BranchAt(i) ==
    /\ lastCall.trace[i].result = BRANCH
    /\ lastCall.trace[i].branch_to \notin {None, ""}
    /\ Registered(lastCall.trace[i].branch_to)

\* C4: when a step returns BRANCH to a registered sequence B, the next step
\* executed is the one at position 0 of B, every step executed later in the
\* call is a step of a sequence entered by a branch, counted from its
\* position 0 (so no step of A after the branching step runs), and when the
\* call returns the active name and list are those of the last branch
\* target, the cursor having advanced from 0 by the steps of it that ran.
C4_BranchEntersTarget ==
    LET tr == lastCall.trace IN
    \A i \in DOMAIN tr :
       BranchAt(i) =>
          /\ \A j \in (i + 1)..Len(tr) :
                \E k \in i..(j - 1) :
                   /\ BranchAt(k)
                   /\ tr[j].modality = tr[k].branch_to
                   /\ tr[j].idx = j - k - 1
                   /\ tr[j].idx < Len(routes[Lower(tr[k].branch_to)])
                   /\ tr[j].step = routes[Lower(tr[k].branch_to)][j - k]
          /\ \E k \in i..Len(tr) :
                /\ BranchAt(k)
                /\ current_modality = tr[k].branch_to
                /\ steps = routes[Lower(tr[k].branch_to)]
                /\ cursor \in {Len(tr) - k - 1, Len(tr) - k}
                /\ cursor >= 0

\* C4 witness: a step of "main" that is not its last one branched to "alt",
\* a step of "alt" ran, and the call returned with "alt" active
C4_Witness ==
    /\ lastCall.err = None
    /\ current_modality = "alt"
    /\ \E i \in DOMAIN lastCall.trace :
          /\ BranchAt(i)
          /\ lastCall.trace[i].modality = "main"
          /\ lastCall.trace[i].branch_to = "alt"
          /\ lastCall.trace[i].idx + 1 < Len(routes["main"])
          /\ i < Len(lastCall.trace)

\* a list made only of steps that need no input and always return CONTINUE
AllAutoContinue(l) ==
    \A i \in DOMAIN l : l[i] = [needs_input |-> FALSE, kind |-> "Continue"]

C6_OnePhase ==
    /\ ~(waiting /\ done)
    /\ Cardinality({ph \in {"waiting", "done", "ready"} :
                      \/ ph = "waiting" /\ waiting
                      \/ ph = "done" /\ done
                      \/ ph = "ready" /\ ~waiting /\ ~done}) = 1

\* C6 witness: a submit_input took the runner from waiting to done
C6_Witness ==
    /\ lastCall.op = "submit_input"
    /\ lastCall.from = "waiting"
    /\ lastCall.err = None
    /\ done
    /\ ~waiting

\* C7: while done is false the cursor lies in 0..Len(steps).
C7_CursorInRange == ~done => (cursor >= 0 /\ cursor <= Len(steps))

\* C7 witness: an advance moved the cursor to the last index, where the step
\* raised, the runner not being done
C7_Witness ==
    /\ lastCall.op = "advance"
    /\ lastCall.err = "StepError"
    /\ ~done
    /\ cursor >= 1
    /\ cursor = Len(steps) - 1

\* C8 (as claimed): whenever waiting is true, the step at the cursor has
\* declared needs_input and has not been executed for the current pause.
C8_Original ==
    waiting =>
       /\ cursor < Len(steps)
       /\ steps[cursor + 1].needs_input
       /\ (lastCall.err = None => ~PausedByOutput)

\* C8 (amended): whenever waiting is true the runner is not done and the
\* cursor indexes a step of the active list, and a call that returns with
\* waiting true has suspended at one of two points: either the step at the
\* cursor declares needs_input, the call returns its prompt and has not
\* executed it, or the step at the cursor was the last one executed and itself
\* returned WAIT_FOR_INPUT, whether or not it declares needs_input.
C8_WaitingIsPromptOrOutput ==
    waiting =>
       /\ ~done
       /\ cursor < Len(steps)
       /\ lastCall.err = None =>
             LET tr == lastCall.trace IN
             /\ lastCall.result = WAIT_FOR_INPUT
             /\ \/ /\ steps[cursor + 1].needs_input
                   /\ lastCall.message = prompt_message(steps[cursor + 1])
                   /\ tr # <<>> => tr[Len(tr)].result \in {CONTINUE, DONE, BRANCH}
                \/ /\ tr # <<>>
                   /\ tr[Len(tr)].result = WAIT_FOR_INPUT
                   /\ tr[Len(tr)].idx = cursor
                   /\ tr[Len(tr)].modality = current_modality
                   /\ tr[Len(tr)].step = steps[cursor + 1]
                   /\ lastCall.message = <<"step", current_modality, cursor>>

\* C8 witness: the runner waits at a step that does not declare needs_input
\* and that the call has executed
C8_Witness ==
    /\ waiting
    /\ lastCall.err = None
    /\ ~steps[cursor + 1].needs_input
    /\ PausedByOutput
    /\ lastCall.trace[Len(lastCall.trace)].idx = cursor

\* C9: start on a registered name is accepted in every phase and never fails
\* as a protocol violation; it runs the step at position 0 of the named list
\* without input; unless a Branch is followed, the active list and name and
\* the context's modality are those of the name and the cursor counts the
\* steps run; waiting (done) is true afterwards only for a pause (an end)
\* made by this call, at a step of the active list.
C9_StartResets ==
    (lastCall.op = "start" /\ Registered(lastCall.arg)) =>
       LET tr == lastCall.trace
           l == routes[Lower(lastCall.arg)] IN
       /\ lastCall.err # "RuntimeError"
       /\ tr # <<>> =>
             /\ tr[1].modality = lastCall.arg
             /\ tr[1].idx = 0
             /\ tr[1].step = l[1]
             /\ tr[1].user_input = None
       /\ tr = <<>> =>
             /\ steps = l
             /\ cursor = 0
             /\ ~done
             /\ IF l = <<>>
                THEN lastCall.err = "IndexError" /\ ~waiting
                ELSE /\ l[1].needs_input
                     /\ waiting
                     /\ lastCall.result = WAIT_FOR_INPUT
                     /\ lastCall.message = prompt_message(l[1])
       /\ (\A i \in DOMAIN tr : ~BranchAt(i)) =>
             /\ steps = l
             /\ current_modality = lastCall.arg
             /\ ctx_modality = lastCall.arg
             /\ cursor \in {Len(tr) - 1, Len(tr)}
             /\ \A i \in DOMAIN tr : tr[i].idx = i - 1 /\ tr[i].step = l[i]
       /\ waiting =>
             /\ lastCall.err = None
             /\ lastCall.result = WAIT_FOR_INPUT
             /\ cursor < Len(steps)
             /\ steps[cursor + 1].needs_input \/ PausedByOutput
       /\ done => lastCall.err = None /\ lastCall.result = DONE

\* C9 witness: a start made while a pause was pending ended the new run
C9_Witness ==
    /\ lastCall.op = "start"
    /\ lastCall.from = "waiting"
    /\ lastCall.err = None
    /\ done
    /\ lastCall.trace # <<>>

\* C10: start on a name without registration raises KeyError (the
\* UnknownWorkflow), executes no step and changes no field of the runner nor
\* the context's modality.
C10_Step ==
    (lastCall'.op = "start" /\ ~Registered(lastCall'.arg)) =>
       /\ lastCall'.err = "KeyError"
       /\ lastCall'.trace = <<>>
       /\ UNCHANGED <<runnerVars, ctx_modality>>

C10_UnknownStartChangesNothing == [][C10_Step]_vars

\* C10 witness: a start on an unregistered name failed while a pause was
\* pending past the first step, and the pause is still there
C10_Witness ==
    /\ lastCall.op = "start"
    /\ lastCall.arg = "missing"
    /\ lastCall.err = "KeyError"
    /\ lastCall.from = "waiting"
    /\ waiting
    /\ cursor >= 1
    /\ current_modality = "main"

\* C11: a step that returns BRANCH to a non-empty name without registration
\* is the last step of its call; the call fails with KeyError (the
\* UnknownWorkflow) and the active list and name are still those of the
\* branching sequence, the cursor still at the branching step.
C11_BranchToUnknownKeepsSequence ==
    LET tr == lastCall.trace IN
    \A i \in DOMAIN tr :
       ( /\ tr[i].result = BRANCH
         /\ tr[i].branch_to \notin {None, ""}
         /\ ~Registered(tr[i].branch_to) )
          => /\ i = Len(tr)
             /\ lastCall.err = "KeyError"
             /\ current_modality = tr[i].modality
             /\ ctx_modality = tr[i].modality
             /\ steps = routes[Lower(tr[i].modality)]
             /\ cursor = tr[i].idx
             /\ steps[cursor + 1] = tr[i].step
             /\ ~done

\* C11 witness: the second step of "main" branched to "missing"
C11_Witness ==
    /\ lastCall.err = "KeyError"
    /\ lastCall.trace # <<>>
    /\ lastCall.trace[Len(lastCall.trace)].result = BRANCH
    /\ lastCall.trace[Len(lastCall.trace)].branch_to = "missing"
    /\ current_modality = "main"
    /\ cursor = 1

\* C12: a step that returns BRANCH with branch_to None or "" is the last
\* step of its call; the call fails with ValueError (the MalformedOutcome),
\* the runner is not done and the active list and name and the cursor are
\* those at the time the step ran.
C12_EmptyBranchTargetFails ==
    LET tr == lastCall.trace IN
    \A i \in DOMAIN tr :
       (tr[i].result = BRANCH /\ tr[i].branch_to \in {None, ""})
          => /\ i = Len(tr)
             /\ lastCall.err = "ValueError"
             /\ ~done
             /\ ~waiting
             /\ current_modality = tr[i].modality
             /\ steps = routes[Lower(tr[i].modality)]
             /\ cursor = tr[i].idx
             /\ steps[cursor + 1] = tr[i].step

\* C12 witness: a step that is not the last of its list returned BRANCH with
\* the empty string
C12_Witness ==
    /\ lastCall.err = "ValueError"
    /\ lastCall.trace # <<>>
    /\ lastCall.trace[Len(lastCall.trace)].branch_to = ""
    /\ cursor + 1 < Len(steps)

\* C13: the context's modality equals the runner's current_modality in every
\* state, and after a start on a registered name both are that name or, when
\* a Branch was followed, the target of the last Branch followed.
C13_ContextModalityIsActiveName ==
    /\ ctx_modality = current_modality
    /\ (lastCall.op = "start" /\ Registered(lastCall.arg)) =>
          LET tr == lastCall.trace
              followed == {i \in DOMAIN tr : BranchAt(i)} IN
          ctx_modality = IF followed = {} THEN lastCall.arg
                         ELSE tr[CHOOSE i \in followed : \A j \in followed : j <= i].branch_to

\* C13 witness: a start on "alt" followed a Branch to "MAIN" and returned
C13_Witness ==
    /\ lastCall.op = "start"
    /\ lastCall.arg = "alt"
    /\ lastCall.err = None
    /\ ctx_modality = "MAIN"
    /\ current_modality = "MAIN"

C18_CurrentStepAndTotalSteps ==
    /\ (current_step = <<>>) <=> (done \/ step_index >= Len(steps))
    /\ current_step # <<>> => current_step = <<steps[step_index + 1]>>
    /\ waiting =>
          /\ current_step # <<>>
          /\ \A user_input \in Inputs : \A r \in submit_input_(Here, user_input) :
                /\ r.c.trace # <<>>
                /\ <<r.c.trace[1].step>> = current_step
                /\ r.c.trace[1].user_input = user_input
                /\ r.c.trace[1].idx = step_index
    /\ total_steps = Len(steps)
    /\ Registered(current_modality) =>
          total_steps = Len(routes[Lower(current_modality)])

\* C18 witness: the runner waits at the second step of a list of three
C18_Witness ==
    /\ waiting
    /\ step_index = 1
    /\ total_steps = 3
    /\ current_step = <<steps[2]>>

\* C18 witness: the run ended by DONE with the cursor at the last index
C18_WitnessDone ==
    /\ done
    /\ step_index < total_steps
    /\ current_step = <<>>

(* ------------------------ properties of the router --------------------- *)

\* C14: a register call leaves under the lowercased name exactly the list
\* it was given, whatever was registered there before (get of the name
\* returns that list, not the earlier list extended), adds no other key and
\* changes no other entry; get and modalities change no entry.  So get
\* returns the list of the most recent register call for the name.
C14_Step ==
    LET call == lastCall'
        key == Lower(call.arg) IN
    IF call.op = "register"
    THEN /\ get(routes', call.arg) = [err |-> None, value |-> call.list, message |-> None]
         /\ DOMAIN routes' = DOMAIN routes \cup {key}
         /\ \A k \in DOMAIN routes \ {key} : routes'[k] = routes[k]
    ELSE routes' = routes

C14_RegisterReplaces == [][C14_Step]_vars

\* C14 witness: "main" held [AutoStep, DoneStep] and was registered again
\* with [DoneStep]
C14_Witness ==
    /\ lastCall.op = "register"
    /\ lastCall.arg = "main"
    /\ lastCall.before.err = None
    /\ lastCall.before.value = <<AutoStep, DoneStep>>
    /\ lastCall.list = <<DoneStep>>
    /\ routes["main"] = <<DoneStep>>

\* pairs of names of the model that differ only in the case of their letters
CaseVariants == {{"main", "MAIN"}, {"alt", "Alt"}, {"οσ", "ΟΣ"}}

DifferOnlyInCase(a, b) == a # b /\ {a, b} \in CaseVariants

\* C15 as stated: after a register call under a name, get with any name
\* that differs from it only in letter case returns the list registered,
\* and the two names have a single entry between them.
C15_Original ==
    lastCall.op = "register" =>
       \A variant \in RouterNames :
          DifferOnlyInCase(lastCall.arg, variant) =>
             /\ get(routes, variant).err = None
             /\ get(routes, variant).value = lastCall.list
             /\ Cardinality({Lower(lastCall.arg), Lower(variant)} \cap DOMAIN routes) = 1

\* what holds of C15: names with the same str.lower() share one entry
C15_SameLowerSameEntry ==
    lastCall.op = "register" =>
       \A variant \in RouterNames :
          Lower(variant) = Lower(lastCall.arg) =>
             /\ get(routes, variant).err = None
             /\ get(routes, variant).value = lastCall.list

\* position of a name in Python's order of str
Position(name) == CHOOSE i \in DOMAIN StrOrder : StrOrder[i] = name

\* names is the enumeration of the set S in ascending order
IsSortedEnumeration(names, S) ==
    /\ {names[i] : i \in DOMAIN names} = S
    /\ \A i, j \in DOMAIN names : i < j => Position(names[i]) < Position(names[j])

\* C16: every key of the router is a lowercased name; modalities returns
\* the keys in ascending order, each once; get of a name whose lowercased
\* form is not a key raises KeyError, and after the words of the message
\* come exactly the names that modalities returns, in that order, with
\* ", " between neighbours.  (That the keys are the lowercased names
\* registered is the part of C14 about the keys.)
C16_ModalitiesAndMessageSorted ==
    LET m == modalities(routes)
        n == Cardinality(DOMAIN routes) IN
    /\ \A k \in DOMAIN routes : Lower(k) = k
    /\ Len(m) = n
    /\ IsSortedEnumeration(m, DOMAIN routes)
    /\ lastCall.op = "modalities" => lastCall.value = m
    /\ lastCall.op = "get" =>
          IF Lower(lastCall.arg) \in DOMAIN routes
          THEN lastCall.err = None
          ELSE LET msg == lastCall.message IN
               /\ lastCall.err = "KeyError"
               /\ Len(msg) = 3 + (IF n = 0 THEN 0 ELSE 2 * n - 1)
               /\ msg[1] = "Unknown modality '"
               /\ msg[2] = lastCall.arg
               /\ msg[3] = "'. Available: "
               /\ \A i \in 1..n : msg[2 + 2 * i] = m[i]
               /\ \A i \in 1..(n - 1) : msg[3 + 2 * i] = ", "

\* C16 witness: get of an unregistered name when three names are
\* registered, one of them not in ASCII
C16_Witness ==
    /\ lastCall.op = "get"
    /\ lastCall.err = "KeyError"
    /\ lastCall.arg = "missing"
    /\ DOMAIN routes = {"main", "alt", "ος"}

(* ------------------- properties of two runners ------------------------- *)

\* every way a call on a runner in configuration c can end
Calls(c) ==
    UNION {start_(c, modality) : modality \in Names}
      \cup advance_(c)
      \cup UNION {submit_input_(c, user_input) : user_input \in Inputs}

\* C17: of two runners on one router, each with its own context, every call
\* changes the fields of one runner only (list, cursor, done, waiting, name,
\* and the modality of its context), and changes them to what a call on
\* that runner alone produces from its own fields.
C17_Step ==
    \/ /\ other' = other
       /\ \E r \in Calls(Here) : This' = Fields(r.c)
    \/ /\ This' = This
       /\ \E r \in Calls(HereOther) : other' = Fields(r.c)

C19_FlaggedMessageLeavesWorkflow ==
    (lastCall.op = "chat_respond" /\ check_biosafety(lastCall.message) # {}) =>
       /\ Len(history) = Len(lastCall.before.history) + 2
       /\ SubSeq(history, 1, Len(lastCall.before.history)) = lastCall.before.history
       /\ history[Len(history) - 1] = Entry("user", lastCall.message)
       /\ history[Len(history)].role = "assistant"
       /\ history[Len(history)].content[1] = "Safety Notice"
       /\ state = lastCall.before.state
       /\ This = lastCall.before.runner
       /\ lastCall.trace = <<>>
       /\ ~lastCall.raised

\* C19 witness: a flagged message sent while the runner waits for input
C19_Witness ==
    /\ lastCall.op = "chat_respond"
    /\ check_biosafety(lastCall.message) # {}
    /\ state.started
    /\ waiting
    /\ ~done

\* a flagged message sent after the workflow is done
C19_WitnessDone ==
    /\ lastCall.op = "chat_respond"
    /\ check_biosafety(lastCall.message) # {}
    /\ state.started
    /\ done

\* a flagged message sent before a workflow is selected
C19_WitnessNotStarted ==
    /\ lastCall.op = "chat_respond"
    /\ check_biosafety(lastCall.message) # {}
    /\ ~state.started
    /\ Len(history) = 4

(* -------------------- further properties of the runner ----------------- *)

\* C21: a CONTINUE returned at the last index of the active list is the
\* last execution of its call: the cursor is then the length of the list,
\* done is set and the host gets a DONE output with the message of that
\* step; a CONTINUE returned at an earlier index c is followed by
\* _run_current at c + 1: the next execution of the call, if any, is the
\* step there without input, and otherwise the call has paused there on a
\* needs_input step.
C21_ContinueAtLastIndexIsDone ==
    LET tr == lastCall.trace IN
    \A i \in DOMAIN tr :
       tr[i].result = CONTINUE =>
          LET l == routes[Lower(tr[i].modality)] IN
          IF tr[i].idx = Len(l) - 1
          THEN /\ i = Len(tr)
               /\ done
               /\ ~waiting
               /\ steps = l
               /\ cursor = Len(l)
               /\ lastCall.err = None
               /\ lastCall.result = DONE
               /\ lastCall.message = <<"step", tr[i].modality, tr[i].idx>>
          ELSE IF i < Len(tr)
               THEN /\ tr[i + 1].modality = tr[i].modality
                    /\ tr[i + 1].idx = tr[i].idx + 1
                    /\ tr[i + 1].step = l[tr[i].idx + 2]
                    /\ tr[i + 1].user_input = None
               ELSE /\ ~done
                    /\ waiting
                    /\ steps = l
                    /\ cursor = tr[i].idx + 1
                    /\ steps[cursor + 1].needs_input
                    /\ lastCall.result = WAIT_FOR_INPUT
                    /\ lastCall.message = prompt_message(steps[cursor + 1])

\* C21 witness: a CONTINUE at the first index was followed by a CONTINUE at
\* the last index, which ended the run with the cursor past the end
C21_Witness ==
    /\ Len(lastCall.trace) >= 2
    /\ lastCall.trace[1].result = CONTINUE
    /\ lastCall.trace[1].idx = 0
    /\ lastCall.trace[Len(lastCall.trace)].result = CONTINUE
    /\ lastCall.result = DONE
    /\ done
    /\ cursor = Len(steps)

\* C22: advance on a runner that is neither done nor waiting moves the
\* cursor on by one.  If that is not an index of the active list (as on a
\* runner that was never started) the call executes nothing, sets done and
\* returns DONE with "Pipeline complete."; otherwise _run_current runs
\* there: a needs_input step pauses the call at that cursor, any other step
\* is the first execution of the call, without input.
C22_Step ==
    LET call == lastCall' IN
    (call.op = "advance" /\ ~done /\ ~waiting) =>
       IF cursor + 1 >= Len(steps)
       THEN /\ cursor' = cursor + 1
            /\ done'
            /\ ~waiting'
            /\ steps' = steps
            /\ current_modality' = current_modality
            /\ call.trace = <<>>
            /\ call.err = None
            /\ call.result = DONE
            /\ call.message = <<"Pipeline complete.">>
       ELSE IF steps[cursor + 2].needs_input
            THEN /\ cursor' = cursor + 1
                 /\ waiting'
                 /\ ~done'
                 /\ call.trace = <<>>
                 /\ call.result = WAIT_FOR_INPUT
                 /\ call.message = prompt_message(steps[cursor + 2])
            ELSE /\ call.trace # <<>>
                 /\ call.trace[1].modality = current_modality
                 /\ call.trace[1].idx = cursor + 1
                 /\ call.trace[1].step = steps[cursor + 2]
                 /\ call.trace[1].user_input = None

C22_AdvanceMovesOn == [][C22_Step]_vars

\* C22 witness: advance on a runner that was never started
C22_Witness ==
    /\ lastCall.op = "advance"
    /\ lastCall.from = "ready"
    /\ lastCall.result = DONE
    /\ steps = <<>>
    /\ cursor = 1
    /\ done

\* advance after a failed start executed the second step of the list
C22_WitnessRuns ==
    /\ lastCall.op = "advance"
    /\ lastCall.from = "ready"
    /\ lastCall.trace # <<>>
    /\ lastCall.trace[1].idx = 1

\* C23: an execution gets a text only as the first execution of a
\* submit_input call, and the text is the one submitted; a submit_input made
\* while the runner waits executes the step it waited at with that text;
\* every other execution of any call is made without input, and a step that
\* declares needs_input is never among them: the chain pauses at it.
C23_TextGoesToOneExecution ==
    LET tr == lastCall.trace IN
    /\ \A i \in DOMAIN tr :
          tr[i].user_input # None =>
             /\ lastCall.op = "submit_input"
             /\ i = 1
             /\ tr[i].user_input = lastCall.arg
    /\ (lastCall.op = "submit_input" /\ lastCall.from = "waiting") =>
          /\ tr # <<>>
          /\ tr[1].user_input = lastCall.arg
          /\ tr[1].step = routes[Lower(tr[1].modality)][tr[1].idx + 1]
    /\ \A i \in DOMAIN tr :
          (i > 1 \/ lastCall.op # "submit_input") =>
             /\ tr[i].user_input = None
             /\ ~tr[i].step.needs_input

\* C23 witness: a submit_input executed an input step and the chain then
\* executed an input-free step and paused at a second input step
C23_Witness ==
    /\ lastCall.op = "submit_input"
    /\ Len(lastCall.trace) = 2
    /\ lastCall.trace[1].step.needs_input
    /\ lastCall.trace[1].user_input = lastCall.arg
    /\ lastCall.trace[2].user_input = None
    /\ waiting
    /\ cursor = 2
    /\ steps[3].needs_input

\* the number of executions of the last call made before the sequence the
\* call ended in was entered (0 when the call followed no Branch)
LastEntry ==
    LET followed == {i \in DOMAIN lastCall.trace : BranchAt(i)} IN
    IF followed = {} THEN 0 ELSE CHOOSE i \in followed : \A j \in followed : j <= i

\* within one call: the executions follow one another in the order of the
\* list, each at the index after the one before, except that the execution
\* after a followed Branch is at index 0 of the target; none is at an index
\* after the cursor.  When the call returns WAIT_FOR_INPUT with the cursor
\* at k, the executions made in the active sequence are those of the
\* consecutive indices that end at k - 1 (at k, when the step at k was
\* executed and asked to wait) and, after a start or a Branch, begin at 0.
ExecutedInOrderUpToPause ==
    LET tr == lastCall.trace
        n == Len(tr) IN
    /\ \A i \in 1..(n - 1) :
          IF BranchAt(i)
          THEN tr[i + 1].modality = tr[i].branch_to /\ tr[i + 1].idx = 0
          ELSE tr[i + 1].modality = tr[i].modality /\ tr[i + 1].idx = tr[i].idx + 1
    /\ \A i \in (LastEntry + 1)..n :
          /\ tr[i].modality = current_modality
          /\ tr[i].idx <= cursor
          /\ tr[i].step = steps[tr[i].idx + 1]
    /\ (lastCall.err = None /\ lastCall.result = WAIT_FOR_INPUT) =>
          /\ waiting
          /\ IF LastEntry < n
             THEN /\ tr[n].idx = IF PausedByOutput THEN cursor ELSE cursor - 1
                  /\ (lastCall.op = "start" \/ LastEntry > 0) => tr[LastEntry + 1].idx = 0
             ELSE (lastCall.op = "start" \/ LastEntry > 0) => cursor = 0

\* C24 as stated, for two calls that follow one another in a pass: the
\* first execution of an advance or submit_input is at an index after that
\* of the last execution of the call before it.
C24_Original ==
    [][ ( /\ lastCall'.op \in {"advance", "submit_input"}
          /\ lastCall'.trace # <<>>
          /\ LastEntry < Len(lastCall.trace) )
        => lastCall'.trace[1].idx > lastCall.trace[Len(lastCall.trace)].idx ]_vars

\* C24 (amended): within a call the steps are executed in strictly
\* increasing index order and the call that returns WAIT_FOR_INPUT at k has
\* executed the consecutive indices before k and none after k
\* (ExecutedInOrderUpToPause); from one call to the next of a pass the order
\* is not strict: an advance begins at the index after the cursor, and a
\* submit_input begins at the cursor, so that a step that was executed and
\* returned WAIT_FOR_INPUT is executed a second time, with the text.
C24_Step ==
    /\ ExecutedInOrderUpToPause'
    /\ (lastCall'.op \in {"advance", "submit_input"} /\ lastCall'.trace # <<>>) =>
          /\ lastCall'.trace[1].modality = current_modality
          /\ lastCall'.trace[1].idx = IF lastCall'.op = "submit_input"
                                      THEN cursor ELSE cursor + 1

C24_InOrderWithinCallRepeatAtPause == [][C24_Step]_vars

\* C24 witness: a start executed the steps at 0 and 1 and returned the
\* prompt of the input step at 2
C24_Witness ==
    /\ lastCall.op = "start"
    /\ lastCall.result = WAIT_FOR_INPUT
    /\ Len(lastCall.trace) = 2
    /\ lastCall.trace[1].idx = 0
    /\ lastCall.trace[2].idx = 1
    /\ cursor = 2
    /\ waiting
    /\ steps[3].needs_input

\* a submit_input executed again the step whose WAIT_FOR_INPUT ended the
\* call before it
C24_WitnessRepeat ==
    /\ lastCall.op = "submit_input"
    /\ lastCall.from = "waiting"
    /\ lastCall.trace # <<>>
    /\ ~lastCall.trace[1].step.needs_input

\* C25: a start, advance or submit_input that returns leaves the runner
\* waiting or done: the output is WAIT_FOR_INPUT exactly when waiting is
\* set and DONE exactly when done is set, and it is never CONTINUE or
\* BRANCH.
C25_ReturnedKindAgreesWithFlags ==
    (lastCall.op \in {"start", "advance", "submit_input"} /\ lastCall.err = None) =>
       /\ waiting \/ done
       /\ (lastCall.result = WAIT_FOR_INPUT) <=> waiting
       /\ (lastCall.result = DONE) <=> done
       /\ lastCall.result \in {WAIT_FOR_INPUT, DONE}

\* C25 witness: a submit_input whose chain executed two steps returned
\* WAIT_FOR_INPUT from the second
C25_Witness ==
    /\ lastCall.op = "submit_input"
    /\ lastCall.err = None
    /\ Len(lastCall.trace) = 2
    /\ lastCall.trace[2].result = WAIT_FOR_INPUT
    /\ lastCall.result = WAIT_FOR_INPUT
    /\ waiting

\* C26: whenever done is set, the cursor is at the last index of the
\* active list or past it: no step after the cursor remains.
C26_DoneOnlyAtEnd ==
    done => cursor >= Len(steps) - 1

\* C26 witness: done after a DONE at the last index of a list of three,
\* reached through a DONE at an earlier index
C26_Witness ==
    /\ done
    /\ Len(steps) = 3
    /\ cursor = 2
    /\ lastCall.trace # <<>>
    /\ lastCall.trace[1].result = DONE
    /\ lastCall.trace[1].idx < 2

\* C27 as stated: a call made when the runner is done leaves it done unless
\* it is a start that returns; an advance or submit_input made then raises
\* RuntimeError and executes no step.
C27_Original ==
    lastCall.from = "done" =>
       /\ lastCall.op \in {"advance", "submit_input"} =>
             /\ lastCall.err = "RuntimeError"
             /\ lastCall.trace = <<>>
             /\ done
       /\ ~done => (lastCall.op = "start" /\ lastCall.err = None)

\* what holds of C27: advance and submit_input on a done runner raise and
\* change nothing; done is cleared by every start on a registered name,
\* whether or not that start returns
C27_DoneUntilStartOnRegisteredName ==
    lastCall.from = "done" =>
       /\ lastCall.op \in {"advance", "submit_input"} =>
             /\ lastCall.err = "RuntimeError"
             /\ lastCall.trace = <<>>
             /\ done
       /\ ~done => (lastCall.op = "start" /\ Registered(lastCall.arg))

\* C30: a start on a name registered with the empty list raises IndexError
\* (from reading the step at cursor 0) after the reset has been made: the
\* empty list is the active list under the name given, the cursor is 0,
\* done and waiting are false, no step was executed and nothing is
\* returned, whatever the state the runner was in before.
C30_StartOnEmptyListRaises ==
    ( /\ lastCall.op = "start"
      /\ Registered(lastCall.arg)
      /\ routes[Lower(lastCall.arg)] = <<>> ) =>
       /\ lastCall.err = "IndexError"
       /\ lastCall.result = None
       /\ lastCall.trace = <<>>
       /\ steps = <<>>
       /\ current_modality = lastCall.arg
       /\ ctx_modality = lastCall.arg
       /\ cursor = 0
       /\ ~done
       /\ ~waiting

\* C30 witness: start on the empty "alt" of a runner that was waiting in
\* "main"
C30_Witness ==
    /\ lastCall.op = "start"
    /\ lastCall.arg = "alt"
    /\ lastCall.from = "waiting"
    /\ routes["alt"] = <<>>
    /\ routes["main"] # <<>>
    /\ lastCall.err = "IndexError"
    /\ steps = <<>>

(* ---------------------- properties of the host loop -------------------- *)

\* the number of steps of the list that declare needs_input
RECURSIVE InputSteps(_)
InputSteps(list) ==
    IF list = <<>> THEN 0
    ELSE (IF Head(list).needs_input THEN 1 ELSE 0) + InputSteps(Tail(list))

\* C29: for a non-empty sequence of steps that return only CONTINUE or
\* DONE, the host loop reaches is_done; no call raises and none is an
\* advance; and when the runner is done the loop has made as many
\* submit_input calls as the sequence has needs_input steps and every step
\* has been executed exactly once, in the order of the list.
C29_HostLoopRunsEachStepOnce ==
    /\ <>done
    /\ [](lastCall.err = None /\ lastCall.advances = 0)
    /\ [](done =>
            /\ lastCall.submits = InputSteps(routes["main"])
            /\ lastCall.executed = [i \in 1..Len(routes["main"]) |-> i - 1])

\* C29 witness: a sequence of three steps, two of them input steps, is done
\* after two submit_input calls
C29_Witness ==
    /\ done
    /\ Len(routes["main"]) = 3
    /\ InputSteps(routes["main"]) = 2
    /\ lastCall.submits = 2
    /\ lastCall.executed = <<0, 1, 2>>

(* ------------------------ properties of one call ----------------------- *)

\* C28: every call returns (or raises) after finitely many step executions,
\* provided every execute returns and no Branch of the call enters a
\* sequence that the call has entered before: a call in progress leads to
\* the call being over, or to a sequence having been entered again.
C28_CallEndsUnlessSequenceReentered ==
    (lastCall.pc = "run") ~> (lastCall.pc = "idle" \/ lastCall.reentered)

\* a start that followed a Branch from one sequence into the other, ran the
\* steps there and returned, no sequence entered twice
C28_Witness ==
    /\ lastCall.op = "start"
    /\ lastCall.pc = "idle"
    /\ lastCall.err = None
    /\ lastCall.entered = {"main", "alt"}
    /\ ~lastCall.reentered
    /\ done

====
